---- MODULE Spec2Model ----
(***************************************************************************)
(* Agent session controller of LocalMind (React front-end).                *)
(*                                                                         *)
(* The controller modelled here is the App component of                    *)
(* src/unnamed/part_009 (the variant with the isSwitchingAgent guard).     *)
(* Its state is the component's useState cells; its operations are the     *)
(* async handlers initializeApp, switchToAgent, createAgent, sendMessage.  *)
(*                                                                         *)
(* JavaScript semantics kept by the model:                                 *)
(*  - an async handler runs synchronously up to its first await; that      *)
(*    prefix is one action, and each continuation (resolve / reject of     *)
(*    the awaited backend call, with catch and finally) is one action;     *)
(*  - a handler reads the state cells through the closure of the render    *)
(*    it was created in: a handler started by an event reads the current   *)
(*    cells, a continuation after an await (and every function it calls)   *)
(*    still reads the values captured when the handler was started;        *)
(*  - setX(v) writes the cell, setX(prev => f(prev)) reads the current     *)
(*    cell when it is applied.                                             *)
(* The handlers are operations of the controller and may be invoked in     *)
(* any state; the `disabled` attributes of the view are not part of them.  *)
(*                                                                         *)
(* SpecBasic is the first App of src/src/app.tsx (lines 32-189), which     *)
(* switches by selectAgent and an effect on [currentAgent]; its view       *)
(* disables nothing but the send button.                                   *)
(*                                                                         *)
(* SpecEnhanced is the second App of src/src/app.tsx (from line 724):      *)
(* loadAgents with the most recently used agent as default, selectAgent,   *)
(* deleteAgent behind its confirmation modal, and its sendMessage, which   *)
(* reloads the conversation instead of appending to it.                    *)
(*                                                                         *)
(* SpecRenderer is one RichMessageRenderer                                 *)
(* (src/src/components/common/RichMessageRender.tsx): the code component,  *)
(* its copy button and the timers of copyToClipboard.                      *)
(*                                                                         *)
(* SpecFormatter is the chain of .replace calls of the same component      *)
(* that makes enhancedContent from the content prop.                       *)
(***************************************************************************)
EXTENDS Integers, Sequences, FiniteSets, TLC

\* ------------------------------------------------------------------ bounds
MaxOps == 3          \* accepted handler invocations (switch, send, create) per run
MaxClock == 1        \* largest value of Date.now() in a run
MaxHistLen == 1      \* longest history the backend returns for an agent
MaxAgents == 2       \* create_agent is not called once the backend holds this many

\* ------------------------------------------------------------- data shapes
NoAgent == 0                                \* currentAgent = null / switchError = null
AgentIds == 1..MaxAgents

Range(s) == {s[i] : i \in DOMAIN s}

\* text is a sequence of characters; " " stands for any white space
TextPool == {<<>>, <<" ">>, <<" ", "h", " ">>}
NamePool == {<<>>, <<" ">>, <<"n">>}
ReplyPool == {<<"r">>}

\* what the backend holds when the application starts: no agent, or agents 1 and 2
StoredAgentLists == {<<>>, <<1, 2>>}

RECURSIVE TrimLeft(_)
TrimLeft(t) == IF t # <<>> /\ Head(t) = " " THEN TrimLeft(Tail(t)) ELSE t

RECURSIVE TrimRight(_)
TrimRight(t) ==
    IF t # <<>> /\ t[Len(t)] = " " THEN TrimRight(SubSeq(t, 1, Len(t) - 1)) ELSE t

Trim(t) == TrimRight(TrimLeft(t))

ErrorText == <<"Sorry, I encountered an error. Please check that Ollama is running and try again.">>

Message(prefix, clock, agent, role, content) ==
    [id |-> <<prefix, clock>>, agent_id |-> agent, role |-> role, content |-> content]

\* what the backend has stored for agent a: message k of its conversation
StoredMessage(a, k) ==
    Message("stored", 10 * a + k, a, IF k % 2 = 1 THEN "user" ELSE "assistant", <<"h">>)

\* the lists get_agent_messages(a) can resolve with
Histories(a) == {[k \in 1..n |-> StoredMessage(a, k)] : n \in 0..MaxHistLen}

\* ------------------------------------------------------------------- state
VARIABLES
    agents,            \* useState<Agent[]>([]): the loaded agent list, as ids
    currentAgent,      \* useState<Agent | null>(null): id of the active agent
    messages,          \* useState<Message[]>([])
    inputMessage,      \* useState(''): the input buffer
    isLoading,         \* useState(false): shared by initializeApp, createAgent, sendMessage
    isFirstTime,       \* useState(true)
    isTyping,          \* useState(false)
    isSwitchingAgent,  \* useState(false): the `switching` flag
    switchError,       \* useState<string | null>(null): agent named by the error text
    initPc,            \* where initializeApp is: "get_agents", "switch" or "done"
    switches,          \* get_agent_messages calls in flight
    sends,             \* send_message calls in flight
    creates,           \* create_agent calls in flight
    now,               \* Date.now(), in milliseconds since the application started
    opCount,           \* accepted handler invocations so far
    backendAgents,     \* agents stored by the backend
    lastEvent,         \* the last step of a controller operation
    \* the second App of src/src/app.tsx (agent management)
    agentToDelete,     \* Agent | null: the agent of the delete confirmation
    deletes,           \* deleteAgent calls in flight
    agentLoads,        \* loadAgents calls awaiting get_agents
    \* the documents tab of the first App of src/src/app.tsx
    documentCalls,     \* add_document calls in flight
    \* RichMessageRenderer
    nodes,             \* the code nodes of the rendered content
    copiedCode,        \* string | null
    timers,            \* pending setTimeout callbacks
    elements,          \* what the code component returned in the last render
    rawContent,        \* the content prop, as tokens
    replaced           \* the results of the .replace calls of enhancedContent, in order

cells == <<agents, currentAgent, messages, inputMessage, isLoading, isFirstTime,
           isTyping, isSwitchingAgent, switchError>>
inFlight == <<initPc, switches, sends, creates>>
enhancedCells == <<agentToDelete, deletes, agentLoads>>
renderer == <<nodes, copiedCode, timers, elements>>
formatter == <<rawContent, replaced>>
\* what the App of src/unnamed/part_009 does not have
outside == <<enhancedCells, documentCalls, renderer, formatter>>
vars == <<cells, inFlight, now, opCount, backendAgents, lastEvent, outside>>

NoCode == <<"null">>                         \* copiedCode = null

\* nothing of the other components is in use
OutsideIdle ==
    /\ agentToDelete = NoAgent
    /\ deletes = {}
    /\ agentLoads = {}
    /\ documentCalls = 0
    /\ nodes = <<>>
    /\ copiedCode = NoCode
    /\ timers = {}
    /\ elements = <<>>
    /\ rawContent = <<>>
    /\ replaced = <<>>

Event(op, agent) == [op |-> op, agent |-> agent, retry |-> FALSE]

\* a step of the in-flight call c; retry marks a switch started by the call that
\* followed a failed switch
SwitchEvent(op, c) == [op |-> op, agent |-> c.agent, retry |-> c.retry]
SendEvent(op, c) == [op |-> op, agent |-> c.agent, retry |-> FALSE]

\* initializeApp has run up to its first await: setIsLoading(true), get_agents pending
Init ==
    /\ agents = <<>>
    /\ currentAgent = NoAgent
    /\ messages = <<>>
    /\ inputMessage = <<>>
    /\ isLoading = TRUE
    /\ isFirstTime = TRUE
    /\ isTyping = FALSE
    /\ isSwitchingAgent = FALSE
    /\ switchError = NoAgent
    /\ initPc = "get_agents"
    /\ switches = {}
    /\ sends = {}
    /\ creates = {}
    /\ now = 0
    /\ opCount = 0
    /\ backendAgents \in StoredAgentLists
    /\ lastEvent = Event("initializeApp", NoAgent)
    /\ OutsideIdle

\* in-flight calls are told apart by the least slot number not in use
FreeSlot(calls) == CHOOSE n \in 0..Cardinality(calls) : \A c \in calls : c.slot # n

\* ------------------------------------------------------------ switchToAgent
\* the early return of switchToAgent, over the cells its closure captured
SwitchGuard(switching, current, agent) == switching \/ current = agent

\* setIsSwitchingAgent(true) under `if (showLoading)`
SwitchingAfterStart(showLoading) == IF showLoading THEN TRUE ELSE isSwitchingAgent

\* switchToAgent from its guard to the await of get_agent_messages
SwitchPrefix(agent, showLoading, owner, retry) ==
    /\ isSwitchingAgent' = SwitchingAfterStart(showLoading)
    /\ switchError' = NoAgent
    /\ messages' = <<>>
    /\ inputMessage' = <<>>
    /\ isTyping' = FALSE
    /\ currentAgent' = agent
    /\ switches' = switches \cup
           {[slot |-> FreeSlot(switches), agent |-> agent, owner |-> owner, retry |-> retry]}

\* what the caller that awaited switchToAgent does once it returns
AfterSwitch(owner) ==
    /\ isLoading' = (IF owner = "user" THEN isLoading ELSE FALSE)
    /\ initPc' = (IF owner = "init" THEN "done" ELSE initPc)

\* the agent selector calls switchToAgent(selectedAgent)
SwitchToAgent(agent) ==
    /\ agent \in Range(agents)
    /\ IF SwitchGuard(isSwitchingAgent, currentAgent, agent)
       THEN /\ lastEvent' = Event("switchDropped", agent)
            /\ UNCHANGED <<cells, inFlight, now, outside, opCount, backendAgents>>
       ELSE /\ opCount < MaxOps
            /\ SwitchPrefix(agent, TRUE, "user", lastEvent.op = "switchFailed")
            /\ opCount' = opCount + 1
            /\ lastEvent' = Event("switchStarted", agent)
            /\ UNCHANGED <<agents, isLoading, isFirstTime,
                           initPc, sends, creates, now, outside, backendAgents>>

\* setMessages(agentMessages || [])
LoadedMessages(history) == history

\* get_agent_messages resolves: the rest of the try block, then finally
SwitchLoaded(s, history) ==
    /\ messages' = LoadedMessages(history)
    /\ isSwitchingAgent' = FALSE
    /\ switches' = switches \ {s}
    /\ AfterSwitch(s.owner)
    /\ lastEvent' = SwitchEvent("switchLoaded", s)
    /\ UNCHANGED <<agents, currentAgent, inputMessage, isFirstTime, isTyping, switchError,
                   sends, creates, now, outside, opCount, backendAgents>>

\* get_agent_messages rejects: the catch block, then finally
SwitchFailed(s) ==
    /\ switchError' = s.agent
    /\ messages' = <<>>
    /\ currentAgent' = NoAgent
    /\ isSwitchingAgent' = FALSE
    /\ switches' = switches \ {s}
    /\ AfterSwitch(s.owner)
    /\ lastEvent' = SwitchEvent("switchFailed", s)
    /\ UNCHANGED <<agents, inputMessage, isFirstTime, isTyping,
                   sends, creates, now, outside, opCount, backendAgents>>

\* the error banner's onClick: setSwitchError(null)
DismissSwitchError ==
    /\ switchError # NoAgent
    /\ switchError' = NoAgent
    /\ lastEvent' = Event("dismissError", NoAgent)
    /\ UNCHANGED <<agents, currentAgent, messages, inputMessage, isLoading, isFirstTime,
                   isTyping, isSwitchingAgent,
                   inFlight, now, outside, opCount, backendAgents>>

\* ------------------------------------------------------------ initializeApp
\* mutant of DefaultAgent: the last agent of the list
DefaultAgentLast(existingAgents) == existingAgents[Len(existingAgents)]

\* the agent loaded by default: existingAgents[0]
DefaultAgent(existingAgents) == existingAgents[1]

\* get_agents resolves inside initializeApp
InitAgentsLoaded ==
    /\ initPc = "get_agents"
    /\ IF Len(backendAgents) > 0
       THEN /\ agents' = backendAgents
            /\ isFirstTime' = FALSE
            \* switchToAgent(existingAgents[0], false) of the first render:
            \* its closure holds isSwitchingAgent = false, currentAgent = null
            /\ ~SwitchGuard(FALSE, NoAgent, DefaultAgent(backendAgents))
            /\ SwitchPrefix(DefaultAgent(backendAgents), FALSE, "init", FALSE)
            /\ initPc' = "switch"
            /\ lastEvent' = Event("initSwitch", DefaultAgent(backendAgents))
            /\ UNCHANGED <<isLoading, sends, creates,
                           now, outside, opCount, backendAgents>>
       ELSE /\ isFirstTime' = TRUE
            /\ isLoading' = FALSE
            /\ initPc' = "done"
            /\ lastEvent' = Event("initEmpty", NoAgent)
            /\ UNCHANGED <<agents, currentAgent, messages, inputMessage, isTyping,
                           isSwitchingAgent, switchError,
                           switches, sends, creates, now, outside, opCount, backendAgents>>

\* get_agents rejects inside initializeApp
InitAgentsFailed ==
    /\ initPc = "get_agents"
    /\ isFirstTime' = TRUE
    /\ isLoading' = FALSE
    /\ initPc' = "done"
    /\ lastEvent' = Event("initFailed", NoAgent)
    /\ UNCHANGED <<agents, currentAgent, messages, inputMessage, isTyping,
                   isSwitchingAgent, switchError,
                   switches, sends, creates, now, outside, opCount, backendAgents>>

\* -------------------------------------------------------------- sendMessage
\* mutant of SendGuard: the guard forgets isLoading
SendGuardWithoutLoading(input, loading, current) ==
    Trim(input) = <<>> \/ current = NoAgent

\* the early return of sendMessage
SendGuard(input, loading, current) ==
    Trim(input) = <<>> \/ loading \/ current = NoAgent

\* the input's onChange: setInputMessage(e.target.value)
TypeInput(text) ==
    /\ text # inputMessage
    /\ inputMessage' = text
    /\ UNCHANGED <<agents, currentAgent, messages, isLoading, isFirstTime, isTyping,
                   isSwitchingAgent, switchError, inFlight, now, outside, opCount, backendAgents,
                   lastEvent>>

\* sendMessage from its guard to the await of send_message
SendMessage ==
    IF SendGuard(inputMessage, isLoading, currentAgent)
    THEN /\ lastEvent' = Event("sendDropped", NoAgent)
         /\ UNCHANGED <<cells, inFlight, now, outside, opCount, backendAgents>>
    ELSE /\ opCount < MaxOps
         /\ inputMessage' = <<>>
         /\ isLoading' = TRUE
         /\ isTyping' = TRUE
         /\ messages' = Append(messages,
                Message("user", now, currentAgent, "user", Trim(inputMessage)))
         /\ sends' = sends \cup
                {[slot |-> FreeSlot(sends), agent |-> currentAgent, text |-> Trim(inputMessage)]}
         /\ opCount' = opCount + 1
         /\ lastEvent' = Event("sendStarted", currentAgent)
         /\ UNCHANGED <<agents, currentAgent, isFirstTime, isSwitchingAgent, switchError,
                        initPc, switches, creates, now, outside, backendAgents>>

\* the message appended for the settled call: currentAgent is the one the closure captured
ReplyMessage(s, prefix, clock, content) ==
    Message(prefix, clock, s.agent, "assistant", content)

\* send_message resolves: the rest of the try block, then finally
SendReplied(s, reply) ==
    /\ messages' = Append(messages, ReplyMessage(s, "assistant", now, reply))
    /\ isLoading' = FALSE
    /\ isTyping' = FALSE
    /\ sends' = sends \ {s}
    /\ lastEvent' = SendEvent("sendReplied", s)
    /\ UNCHANGED <<agents, currentAgent, inputMessage, isFirstTime, isSwitchingAgent,
                   switchError, initPc, switches, creates,
                   now, outside, opCount, backendAgents>>

\* send_message rejects: the catch block, then finally
SendFailed(s) ==
    /\ messages' = Append(messages, ReplyMessage(s, "error", now, ErrorText))
    /\ isLoading' = FALSE
    /\ isTyping' = FALSE
    /\ sends' = sends \ {s}
    /\ lastEvent' = SendEvent("sendFailed", s)
    /\ UNCHANGED <<agents, currentAgent, inputMessage, isFirstTime, isSwitchingAgent,
                   switchError, initPc, switches, creates,
                   now, outside, opCount, backendAgents>>

\* -------------------------------------------------------------- createAgent
\* the early return of createAgent
\* mutant of CreateGuard: the name is tested without trimming
CreateGuardWithoutTrim(name) == name = <<>>

CreateGuard(name) == Trim(name) = <<>>

\* createAgent from its guard to the await of create_agent, for the draft name
\* of the creation form; the record keeps the cells the closure captured
CreateAgent(name) ==
    IF CreateGuard(name)
    THEN /\ lastEvent' = Event("createRejected", NoAgent)
         /\ UNCHANGED <<cells, inFlight, now, outside, opCount, backendAgents>>
    ELSE /\ opCount < MaxOps
         /\ Len(backendAgents) + Cardinality(creates) < MaxAgents
         /\ isLoading' = TRUE
         /\ creates' = creates \cup
                {[slot |-> FreeSlot(creates), agents |-> agents,
                  switching |-> isSwitchingAgent, current |-> currentAgent]}
         /\ opCount' = opCount + 1
         /\ lastEvent' = Event("createStarted", NoAgent)
         /\ UNCHANGED <<agents, currentAgent, messages, inputMessage, isFirstTime,
                        isTyping, isSwitchingAgent, switchError, initPc, switches, sends,
                        now, outside, backendAgents>>

\* create_agent resolves with the stored agent; then switchToAgent(agent) of the
\* captured render, then the rest of the try block and finally
AgentCreated(c) ==
    LET agent == Len(backendAgents) + 1 IN
    /\ backendAgents' = Append(backendAgents, agent)
    /\ agents' = Append(c.agents, agent)
    /\ isFirstTime' = FALSE
    /\ creates' = creates \ {c}
    /\ IF SwitchGuard(c.switching, c.current, agent)
       THEN /\ isLoading' = FALSE
            /\ lastEvent' = Event("createdNoSwitch", agent)
            /\ UNCHANGED <<currentAgent, messages, inputMessage, isTyping,
                           isSwitchingAgent, switchError, switches>>
       ELSE /\ SwitchPrefix(agent, TRUE, "create", FALSE)
            /\ lastEvent' = Event("createdSwitch", agent)
            /\ UNCHANGED isLoading
    /\ UNCHANGED <<initPc, sends, now, outside, opCount>>

\* create_agent rejects: the catch block, then finally
CreateFailed(c) ==
    /\ creates' = creates \ {c}
    /\ isLoading' = FALSE
    /\ lastEvent' = Event("createFailed", NoAgent)
    /\ UNCHANGED <<agents, currentAgent, messages, inputMessage, isFirstTime, isTyping,
                   isSwitchingAgent, switchError,
                   initPc, switches, sends, now, outside, opCount, backendAgents>>

\* ------------------------------------------------------------ specification
Next ==
    \/ InitAgentsLoaded
    \/ InitAgentsFailed
    \/ \E agent \in AgentIds : SwitchToAgent(agent)
    \/ \E s \in switches : \E history \in Histories(s.agent) : SwitchLoaded(s, history)
    \/ \E s \in switches : SwitchFailed(s)
    \/ DismissSwitchError
    \/ \E text \in TextPool : TypeInput(text)
    \/ SendMessage
    \/ \E s \in sends : \E reply \in ReplyPool : SendReplied(s, reply)
    \/ \E s \in sends : SendFailed(s)
    \/ \E name \in NamePool : CreateAgent(name)
    \/ \E c \in creates : AgentCreated(c)
    \/ \E c \in creates : CreateFailed(c)

Spec == Init /\ [][Next]_vars

\* a millisecond passes
Tick ==
    /\ now < MaxClock
    /\ now' = now + 1
    /\ UNCHANGED <<cells, inFlight, opCount, backendAgents, lastEvent, outside>>

\* the controller with the clock running; the clock is read only for message ids
NextTimed == Next \/ Tick

SpecTimed == Init /\ [][NextTimed]_vars

\* ------------------------------------------- the App of src/src/app.tsx
\* The first App of src/src/app.tsx keeps no switching flag: selectAgent sets
\* currentAgent and an effect on [currentAgent] loads the history. Its cells are
\* agents, currentAgent, messages, inputMessage and isLoading; the agent list is
\* loaded once, at mount. Its createAgent, a further caller of setCurrentAgent, is
\* left out: what the remaining handlers reach, the component reaches.
BasicErrorText == <<"Sorry, I encountered an error processing your message. Please try again.">>

\* a Message of app.tsx; crypto.randomUUID() is a number no other message carries
BasicMessage(uuid, agent, sender, content) ==
    [id |-> <<"uuid", uuid>>, agent_id |-> agent, sender |-> sender, content |-> content]

\* the lists get_agent_messages(a) may resolve with
BasicHistories(a) ==
    {[k \in 1..n |-> BasicMessage(-(10 * a + k), a,
                                  IF k % 2 = 1 THEN "user" ELSE "agent", <<"h">>)] :
        n \in 0..MaxHistLen}

\* the cells and counters the first App does not have
notInBasic == <<isFirstTime, isTyping, isSwitchingAgent, switchError, creates, now,
                outside>>

\* mounted: loadAgents has run up to its await of get_agents
InitBasic ==
    /\ agents = <<>>
    /\ currentAgent = NoAgent
    /\ messages = <<>>
    /\ inputMessage = <<>>
    /\ isLoading = FALSE
    /\ isFirstTime = TRUE
    /\ isTyping = FALSE
    /\ isSwitchingAgent = FALSE
    /\ switchError = NoAgent
    /\ initPc = "get_agents"
    /\ switches = {}
    /\ sends = {}
    /\ creates = {}
    /\ now = 0
    /\ opCount = 0
    /\ backendAgents \in StoredAgentLists
    /\ lastEvent = Event("loadAgents", NoAgent)
    /\ OutsideIdle

\* the effect on [currentAgent]: loadMessagesForAgent(currentAgent.id) up to its await
LoadMessagesForAgent(agent) ==
    switches' = switches \cup
        {[slot |-> FreeSlot(switches), agent |-> agent, owner |-> "effect", retry |-> FALSE]}

\* get_agents resolves: the rest of loadAgents, then the effect if currentAgent changed
LoadAgentsLoaded ==
    /\ initPc = "get_agents"
    /\ initPc' = "done"
    /\ agents' = backendAgents
    /\ IF Len(backendAgents) > 0 /\ currentAgent = NoAgent
       THEN /\ currentAgent' = backendAgents[1]
            /\ LoadMessagesForAgent(backendAgents[1])
            /\ lastEvent' = Event("agentsLoaded", backendAgents[1])
       ELSE /\ lastEvent' = Event("agentsLoaded", NoAgent)
            /\ UNCHANGED <<currentAgent, switches>>
    /\ UNCHANGED <<messages, inputMessage, isLoading, sends, opCount, backendAgents,
                   notInBasic>>

\* get_agents rejects: the catch block of loadAgents
LoadAgentsFailed ==
    /\ initPc = "get_agents"
    /\ initPc' = "done"
    /\ lastEvent' = Event("agentsFailed", NoAgent)
    /\ UNCHANGED <<cells, switches, sends, creates, now, outside, opCount, backendAgents>>

\* a dropdown item's onClick: selectAgent(agent), then the effect if currentAgent
\* changed (the items are the objects of agents: the current one is the same object)
SelectAgent(agent) ==
    /\ agent \in Range(agents)
    /\ IF agent = currentAgent
       THEN /\ lastEvent' = Event("sameAgentSelected", agent)
            /\ UNCHANGED <<cells, inFlight, now, outside, opCount, backendAgents>>
       ELSE /\ opCount < MaxOps
            /\ currentAgent' = agent
            /\ LoadMessagesForAgent(agent)
            /\ opCount' = opCount + 1
            /\ lastEvent' = Event("agentSelected", agent)
            /\ UNCHANGED <<agents, messages, inputMessage, isLoading, initPc, sends,
                           backendAgents, notInBasic>>

\* get_agent_messages resolves: setMessages(agentMessages)
MessagesLoaded(s, history) ==
    /\ messages' = history
    /\ switches' = switches \ {s}
    /\ lastEvent' = SwitchEvent("messagesLoaded", s)
    /\ UNCHANGED <<agents, currentAgent, inputMessage, isLoading, initPc, sends, opCount,
                   backendAgents, notInBasic>>

\* get_agent_messages rejects: setMessages([])
MessagesFailed(s) ==
    /\ messages' = <<>>
    /\ switches' = switches \ {s}
    /\ lastEvent' = SwitchEvent("messagesFailed", s)
    /\ UNCHANGED <<agents, currentAgent, inputMessage, isLoading, initPc, sends, opCount,
                   backendAgents, notInBasic>>

\* sendMessage of app.tsx from its guard to the await of send_message_to_agent
BasicSendMessage ==
    IF SendGuard(inputMessage, isLoading, currentAgent)
    THEN /\ lastEvent' = Event("sendDropped", NoAgent)
         /\ UNCHANGED <<cells, inFlight, now, outside, opCount, backendAgents>>
    ELSE /\ opCount < MaxOps
         /\ messages' = Append(messages,
                BasicMessage(2 * opCount, currentAgent, "user", Trim(inputMessage)))
         /\ inputMessage' = <<>>
         /\ isLoading' = TRUE
         /\ sends' = sends \cup
                {[slot |-> FreeSlot(sends), agent |-> currentAgent,
                  text |-> Trim(inputMessage), uuid |-> 2 * opCount + 1]}
         /\ opCount' = opCount + 1
         /\ lastEvent' = Event("sendStarted", currentAgent)
         /\ UNCHANGED <<agents, currentAgent, initPc, switches, backendAgents, notInBasic>>

\* send_message_to_agent settles: the agent's message or the error notice is
\* appended under the captured currentAgent.id, then finally
BasicSendSettled(s, content) ==
    /\ messages' = Append(messages, BasicMessage(s.uuid, s.agent, "agent", content))
    /\ isLoading' = FALSE
    /\ sends' = sends \ {s}
    /\ lastEvent' = SendEvent(IF content = BasicErrorText THEN "sendFailed"
                                                          ELSE "sendReplied", s)
    /\ UNCHANGED <<agents, currentAgent, inputMessage, initPc, switches, opCount,
                   backendAgents, notInBasic>>

\* the Add Document button of the documents tab: onClick={() => invoke('add_document')};
\* the promise returned by invoke is dropped
AddDocument ==
    /\ opCount < MaxOps
    /\ documentCalls' = documentCalls + 1
    /\ opCount' = opCount + 1
    /\ lastEvent' = Event("addDocument", NoAgent)
    /\ UNCHANGED <<cells, inFlight, now, backendAgents, enhancedCells, renderer, formatter>>

\* add_document resolves: nothing is attached to the promise
AddDocumentResolved ==
    /\ documentCalls > 0
    /\ documentCalls' = documentCalls - 1
    /\ lastEvent' = Event("documentAdded", NoAgent)
    /\ UNCHANGED <<cells, inFlight, now, opCount, backendAgents, enhancedCells, renderer,
                   formatter>>

\* add_document rejects: no handler is attached, the rejection is unhandled
AddDocumentRejected ==
    /\ documentCalls > 0
    /\ documentCalls' = documentCalls - 1
    /\ lastEvent' = Event("unhandledRejection", NoAgent)
    /\ UNCHANGED <<cells, inFlight, now, opCount, backendAgents, enhancedCells, renderer,
                   formatter>>

NextBasic ==
    \/ LoadAgentsLoaded
    \/ LoadAgentsFailed
    \/ \E agent \in AgentIds : SelectAgent(agent)
    \/ \E s \in switches : \E history \in BasicHistories(s.agent) : MessagesLoaded(s, history)
    \/ \E s \in switches : MessagesFailed(s)
    \/ \E text \in TextPool : TypeInput(text)
    \/ BasicSendMessage
    \/ \E s \in sends : \E content \in ReplyPool \cup {BasicErrorText} :
           BasicSendSettled(s, content)
    \/ AddDocument
    \/ AddDocumentResolved
    \/ AddDocumentRejected

SpecBasic == InitBasic /\ [][NextBasic]_vars

\* ------------------------------------ the second App of src/src/app.tsx
\* The second App of src/src/app.tsx (from line 724) manages agents: loadAgents
\* picks the most recently used agent and clears currentAgent for an empty list,
\* deleteAgent deletes the agent of the confirmation modal. Its history loader is
\* the one of the first App (MessagesLoaded, MessagesFailed). Modelled are the
\* handlers that load, select and delete agents; selecting the agent that is
\* already current is left out.

\* last_used of a stored agent
LastUsed(agent) == agent

\* [...agentList].sort by last_used, latest first, then [0]
MostRecentlyUsed(agentList) ==
    CHOOSE a \in Range(agentList) : \A b \in Range(agentList) : LastUsed(b) <= LastUsed(a)

\* agents.filter(a => a.id !== id)
Without(agentList, id) == SelectSeq(agentList, LAMBDA a : a # id)

\* the cells and counters this App keeps idle here
notInEnhanced == <<isFirstTime, isTyping, isSwitchingAgent, switchError, initPc, creates,
                   now, documentCalls, renderer, formatter>>
\* what sendMessage writes besides messages
sendCells == <<inputMessage, isLoading, sends>>

\* loadAgents up to its await of get_agents, with the currentAgent of its closure
LoadAgents(current, owner) ==
    agentLoads' = agentLoads \cup
        {[slot |-> FreeSlot(agentLoads), current |-> current, owner |-> owner]}

\* mounted: loadAgents has run up to its await
InitEnhanced ==
    /\ agents = <<>>
    /\ currentAgent = NoAgent
    /\ messages = <<>>
    /\ inputMessage = <<>>
    /\ isLoading = FALSE
    /\ isFirstTime = TRUE
    /\ isTyping = FALSE
    /\ isSwitchingAgent = FALSE
    /\ switchError = NoAgent
    /\ initPc = "done"
    /\ switches = {}
    /\ sends = {}
    /\ creates = {}
    /\ now = 0
    /\ opCount = 0
    /\ backendAgents \in StoredAgentLists
    /\ lastEvent = Event("loadAgents", NoAgent)
    /\ agentToDelete = NoAgent
    /\ deletes = {}
    /\ agentLoads = {[slot |-> 0, current |-> NoAgent, owner |-> "mount"]}
    /\ documentCalls = 0
    /\ nodes = <<>>
    /\ copiedCode = NoCode
    /\ timers = {}
    /\ elements = <<>>
    /\ rawContent = <<>>
    /\ replaced = <<>>

\* what deleteAgent and sendMessage do once the loadAgents they awaited has returned
AfterLoadAgents(owner) ==
    /\ agentToDelete' = (IF owner = "delete" THEN NoAgent ELSE agentToDelete)
    /\ isLoading' = (IF owner = "send" THEN FALSE ELSE isLoading)

\* get_agents resolves inside loadAgents, then the effect on [currentAgent]
EnhancedAgentsLoaded(l) ==
    /\ agentLoads' = agentLoads \ {l}
    /\ agents' = backendAgents
    /\ IF Len(backendAgents) = 0
       THEN /\ currentAgent' = NoAgent
            /\ UNCHANGED switches
       ELSE IF l.current = NoAgent \/ l.current \notin Range(backendAgents)
            THEN /\ currentAgent' = MostRecentlyUsed(backendAgents)
                 /\ LoadMessagesForAgent(MostRecentlyUsed(backendAgents))
            ELSE UNCHANGED <<currentAgent, switches>>
    /\ AfterLoadAgents(l.owner)
    /\ lastEvent' = Event("agentsLoaded", l.current)
    /\ UNCHANGED <<messages, inputMessage, sends, deletes, opCount, backendAgents,
                   notInEnhanced>>

\* get_agents rejects inside loadAgents: a notification
EnhancedAgentsFailed(l) ==
    /\ agentLoads' = agentLoads \ {l}
    /\ AfterLoadAgents(l.owner)
    /\ lastEvent' = Event("agentsFailed", l.current)
    /\ UNCHANGED <<agents, currentAgent, messages, inputMessage, sends, switches, deletes,
                   opCount, backendAgents, notInEnhanced>>

\* a dropdown item's onClick: selectAgent(agent), then the effect on [currentAgent]
EnhancedSelectAgent(agent) ==
    /\ agent \in Range(agents)
    /\ agent # currentAgent
    /\ opCount < MaxOps
    /\ currentAgent' = agent
    /\ LoadMessagesForAgent(agent)
    /\ opCount' = opCount + 1
    /\ lastEvent' = Event("agentSelected", agent)
    /\ UNCHANGED <<agents, messages, sendCells, enhancedCells, backendAgents, notInEnhanced>>

\* the delete button of an agent card: openDeleteConfirmModal(agent)
OpenDeleteConfirmModal(agent) ==
    /\ agent \in Range(agents)
    /\ agent # agentToDelete
    /\ agentToDelete' = agent
    /\ lastEvent' = Event("deleteModal", agent)
    /\ UNCHANGED <<agents, currentAgent, messages, sendCells, switches, deletes, agentLoads,
                   opCount, backendAgents, notInEnhanced>>

\* deleteAgent from its guard to the await of delete_agent
DeleteAgent ==
    /\ agentToDelete # NoAgent
    /\ opCount < MaxOps
    /\ deletes' = deletes \cup
           {[slot |-> FreeSlot(deletes), agent |-> agentToDelete,
             current |-> currentAgent, agents |-> agents]}
    /\ opCount' = opCount + 1
    /\ lastEvent' = Event("deleteStarted", agentToDelete)
    /\ UNCHANGED <<agents, currentAgent, messages, sendCells, switches, agentToDelete,
                   agentLoads, backendAgents, notInEnhanced>>

\* delete_agent resolves: the current agent is replaced if it was the deleted one,
\* then loadAgents is called; currentAgent and agents are those of the closure
AgentDeleted(d) ==
    /\ d.agent \in Range(backendAgents)
    /\ backendAgents' = Without(backendAgents, d.agent)
    /\ deletes' = deletes \ {d}
    /\ IF d.current = d.agent
       THEN IF Len(Without(d.agents, d.agent)) > 0
            THEN /\ currentAgent' = Without(d.agents, d.agent)[1]
                 /\ IF currentAgent = Without(d.agents, d.agent)[1]
                    THEN UNCHANGED switches
                    ELSE LoadMessagesForAgent(Without(d.agents, d.agent)[1])
            ELSE /\ currentAgent' = NoAgent
                 /\ UNCHANGED switches
       ELSE UNCHANGED <<currentAgent, switches>>
    /\ LoadAgents(d.current, "delete")
    /\ lastEvent' = Event("agentDeleted", d.agent)
    /\ UNCHANGED <<agents, messages, sendCells, agentToDelete, opCount, notInEnhanced>>

\* delete_agent rejects: a notification, the modal stays
DeleteFailed(d) ==
    /\ deletes' = deletes \ {d}
    /\ lastEvent' = Event("deleteFailed", d.agent)
    /\ UNCHANGED <<agents, currentAgent, messages, sendCells, switches, agentToDelete,
                   agentLoads, opCount, backendAgents, notInEnhanced>>

\* sendMessage from its guard to the await of send_message_to_agent
EnhancedSendMessage ==
    IF SendGuard(inputMessage, isLoading, currentAgent)
    THEN /\ lastEvent' = Event("sendDropped", NoAgent)
         /\ UNCHANGED <<cells, inFlight, now, outside, opCount, backendAgents>>
    ELSE /\ opCount < MaxOps
         /\ isLoading' = TRUE
         /\ inputMessage' = <<>>
         /\ sends' = sends \cup
                {[slot |-> FreeSlot(sends), agent |-> currentAgent,
                  text |-> Trim(inputMessage), step |-> "send_message_to_agent"]}
         /\ opCount' = opCount + 1
         /\ lastEvent' = Event("sendStarted", currentAgent)
         /\ UNCHANGED <<agents, currentAgent, messages, switches, enhancedCells,
                        backendAgents, notInEnhanced>>

\* send_message_to_agent resolves: loadMessagesForAgent(currentAgent.id) of the
\* closure runs up to its await
EnhancedSendReplied(s) ==
    /\ s.step = "send_message_to_agent"
    /\ sends' = (sends \ {s}) \cup {[s EXCEPT !.step = "get_agent_messages"]}
    /\ lastEvent' = SendEvent("sendReplied", s)
    /\ UNCHANGED <<agents, currentAgent, messages, inputMessage, isLoading, switches,
                   enhancedCells, opCount, backendAgents, notInEnhanced>>

\* send_message_to_agent rejects: a notification, then finally
EnhancedSendFailed(s) ==
    /\ s.step = "send_message_to_agent"
    /\ sends' = sends \ {s}
    /\ isLoading' = FALSE
    /\ lastEvent' = SendEvent("sendFailed", s)
    /\ UNCHANGED <<agents, currentAgent, messages, inputMessage, switches,
                   enhancedCells, opCount, backendAgents, notInEnhanced>>

\* the get_agent_messages call of the reload settles (history, or [] from its
\* catch); sendMessage goes on to loadAgents()
EnhancedSendReloaded(s, history) ==
    /\ s.step = "get_agent_messages"
    /\ messages' = history
    /\ sends' = sends \ {s}
    /\ LoadAgents(s.agent, "send")
    /\ lastEvent' = SendEvent("sendReloaded", s)
    /\ UNCHANGED <<agents, currentAgent, inputMessage, isLoading, switches, agentToDelete,
                   deletes, opCount, backendAgents, notInEnhanced>>

NextEnhanced ==
    \/ \E l \in agentLoads : EnhancedAgentsLoaded(l)
    \/ \E l \in agentLoads : EnhancedAgentsFailed(l)
    \/ \E agent \in AgentIds : EnhancedSelectAgent(agent)
    \/ \E s \in switches : \E history \in BasicHistories(s.agent) : MessagesLoaded(s, history)
    \/ \E s \in switches : MessagesFailed(s)
    \/ \E agent \in AgentIds : OpenDeleteConfirmModal(agent)
    \/ DeleteAgent
    \/ \E d \in deletes : AgentDeleted(d)
    \/ \E d \in deletes : DeleteFailed(d)
    \/ \E text \in TextPool : TypeInput(text)
    \/ EnhancedSendMessage
    \/ \E s \in sends : EnhancedSendReplied(s)
    \/ \E s \in sends : EnhancedSendFailed(s)
    \/ \E s \in sends : \E history \in BasicHistories(s.agent) : EnhancedSendReloaded(s, history)

SpecEnhanced == InitEnhanced /\ [][NextEnhanced]_vars

\* --------------------------------------------------- RichMessageRenderer
\* One RichMessageRenderer instance and the code nodes of its content. A string
\* is a sequence of tokens: letters, the blank, the newline, and "language-" as
\* one token. The clock counts seconds.

MaxNodes == 2
MaxSeconds == 3
CopyDelay == 2                               \* setTimeout(..., 2000)

\* \w
IsWord(c) == c \in {"h", "j", "s", "a", "info", "tip", "foo", "constructor"}

\* the className of a code node; <<>> is undefined
ClassNames ==
    {<<>>, <<"language-">>, <<"language-", "j", "s">>, <<"h", " ", "language-", "j", " ", "s">>}

\* the children of a code node
CodeTexts == {<<"a">>, <<"b">>, <<"a", "\n">>}

CodeNodes == [className : ClassNames, children : CodeTexts]

\* the longest run of \w from position i on
RECURSIVE WordRun(_, _)
WordRun(str, i) ==
    IF i <= Len(str) /\ IsWord(str[i]) THEN <<str[i]>> \o WordRun(str, i + 1) ELSE <<>>

\* /language-(\w+)/.exec(className || ''), then match ? match[1] : ''
Language(className) ==
    LET starts == {i \in 1..Len(className) :
                      /\ className[i] = "language-"
                      /\ i < Len(className)
                      /\ IsWord(className[i + 1])}
    IN IF starts = {} THEN <<>>
       ELSE WordRun(className, (CHOOSE i \in starts : \A j \in starts : i <= j) + 1)

\* String(children).replace(/\n$/, '')
CodeString(children) ==
    IF Len(children) > 0 /\ children[Len(children)] = "\n"
    THEN SubSeq(children, 1, Len(children) - 1)
    ELSE children

\* what code(props) returns: the container with header, language and copy button,
\* or the inline <code>
CodeElement(node, copied) ==
    IF Language(node.className) = <<>>
    THEN [tag |-> "code-block-container", header |-> TRUE,
          language |-> Language(node.className),
          copy |-> IF copied = CodeString(node.children) THEN "Copied!" ELSE "Copy",
          text |-> CodeString(node.children)]
    ELSE [tag |-> "inline-code", header |-> FALSE, language |-> <<>>,
          copy |-> "none", text |-> node.children]

\* one render of the code nodes
Render(codeNodes, copied) == [i \in 1..Len(codeNodes) |-> CodeElement(codeNodes[i], copied)]

notInRenderer == <<cells, inFlight, backendAgents, enhancedCells, documentCalls, formatter>>

\* the first render of some content
InitRenderer ==
    /\ agents = <<>>
    /\ currentAgent = NoAgent
    /\ messages = <<>>
    /\ inputMessage = <<>>
    /\ isLoading = FALSE
    /\ isFirstTime = TRUE
    /\ isTyping = FALSE
    /\ isSwitchingAgent = FALSE
    /\ switchError = NoAgent
    /\ initPc = "done"
    /\ switches = {}
    /\ sends = {}
    /\ creates = {}
    /\ now = 0
    /\ opCount = 0
    /\ backendAgents = <<>>
    /\ lastEvent = Event("rendered", NoAgent)
    /\ agentToDelete = NoAgent
    /\ deletes = {}
    /\ agentLoads = {}
    /\ documentCalls = 0
    /\ nodes \in [1..MaxNodes -> CodeNodes]
    /\ copiedCode = NoCode
    /\ timers = {}
    /\ elements = Render(nodes, NoCode)
    /\ rawContent = <<>>
    /\ replaced = <<>>

\* the onClick of the copy button of node i: copyToClipboard(codeString)
CopyToClipboard(i) ==
    /\ i \in 1..Len(nodes)
    /\ elements[i].copy # "none"
    /\ opCount < MaxOps
    /\ copiedCode' = elements[i].text
    /\ timers' = timers \cup
           {[slot |-> FreeSlot(timers), code |-> elements[i].text, due |-> now + CopyDelay]}
    /\ elements' = Render(nodes, copiedCode')
    /\ opCount' = opCount + 1
    /\ lastEvent' = Event("copied", i)
    /\ UNCHANGED <<nodes, now, notInRenderer>>

\* a timer callback: setCopiedCode(null)
CopyTimeout(t) ==
    /\ t.due <= now
    /\ copiedCode' = NoCode
    /\ timers' = timers \ {t}
    /\ elements' = Render(nodes, copiedCode')
    /\ lastEvent' = Event("copyTimeout", NoAgent)
    /\ UNCHANGED <<nodes, now, opCount, notInRenderer>>

\* a second passes; due timers run first
Elapse ==
    /\ now < MaxSeconds
    /\ \A t \in timers : t.due > now
    /\ now' = now + 1
    /\ lastEvent' = Event("elapse", NoAgent)
    /\ UNCHANGED <<nodes, copiedCode, timers, elements, opCount, notInRenderer>>

NextRenderer ==
    \/ \E i \in 1..MaxNodes : CopyToClipboard(i)
    \/ \E t \in timers : CopyTimeout(t)
    \/ Elapse

SpecRenderer == InitRenderer /\ [][NextRenderer]_vars

\* ------------------------------------------------------- enhancedContent
\* The preprocessing of RichMessageRenderer: the chain of .replace calls that
\* makes enhancedContent from the content prop. "::", "++", "==", "[x]", "[X]",
\* "[ ]", a word, a glyph and a piece of the inserted markup are one token each.

MaxLines == 2

\* \s
IsSpace(c) == c \in {" ", "\n"}

\* the lines a content is made of
LinePool ==
    {<<>>, <<"a">>, <<" ", "a">>,
     <<"::", "info", "::", " ", "a">>, <<"::", "tip", "::", " ", "a", " ", "a">>,
     <<"::", "foo", "::", " ", "a">>, <<"::", "constructor", "::", " ", "a">>,
     <<"::", "info", "::", " ", "++", "a", "++">>, <<"::", "info", "::", " ", "==", "a", "==">>,
     <<"++", "a", "++">>, <<"==", "a", "==", " ", "a">>,
     <<"-", " ", "[x]", " ", "a">>, <<"-", " ", "[X]", " ", "a">>, <<"*", " ", "[x]", " ", "a">>,
     <<"-", " ", "[ ]", " ", "a">>, <<" ", "*", " ", "[ ]", " ", "a">>, <<"-", " ", "a">>}

RECURSIVE JoinLines(_)
JoinLines(lines) ==
    IF Len(lines) = 0 THEN <<>>
    ELSE IF Len(lines) = 1 THEN lines[1]
    ELSE lines[1] \o <<"\n">> \o JoinLines(Tail(lines))

\* the content prop
Contents == {JoinLines(lines) : lines \in UNION {[1..n -> LinePool] : n \in 1..MaxLines}}

\* the length of the run of \s from position i on
RECURSIVE SpaceRun(_, _)
SpaceRun(str, i) ==
    IF i <= Len(str) /\ IsSpace(str[i]) THEN 1 + SpaceRun(str, i + 1) ELSE 0

\* the last position of the line of position p: (?=\n|$)
RECURSIVE LineEnd(_, _)
LineEnd(str, p) ==
    IF p < Len(str) /\ str[p + 1] # "\n" THEN LineEnd(str, p + 1) ELSE p

\* const icons
Icons ==
    [info |-> "U+2139", warning |-> "U+26A0", tip |-> "U+1F4A1", danger |-> "U+1F6A8",
     success |-> "U+2705", note |-> "U+1F4DD"]

\* what icons[name] finds on Object.prototype for a name that icons does not define
Inherited == [constructor |-> "function Object() { [native code] }"]

\* icons[type] || default
getCalloutIcon(type) ==
    IF Len(type) = 1 /\ type[1] \in DOMAIN Icons THEN Icons[type[1]]
    ELSE IF Len(type) = 1 /\ type[1] \in DOMAIN Inherited THEN Inherited[type[1]]
    ELSE Icons["info"]

\* the template literal of the callout replacement
CalloutMarkup(type, icon, text) ==
    <<"<div class=callout callout-">> \o type \o <<"><span class=callout-icon>", icon, "</span>">>
        \o text \o <<"</div>">>

\* /::(\w+)::\s*(.+?)(?=\n|$)/ tried at position i; last = 0 is no match
CalloutMatch(str, i) ==
    LET type == WordRun(str, i + 1)
        close == i + 1 + Len(type)
        starts == {p \in (close + 1)..(close + 1 + SpaceRun(str, close + 1)) :
                      p <= Len(str) /\ str[p] # "\n"}
        first == CHOOSE p \in starts : \A q \in starts : q <= p
    IN IF /\ str[i] = "::"
          /\ Len(type) > 0
          /\ close <= Len(str)
          /\ str[close] = "::"
          /\ starts # {}
       THEN [last |-> LineEnd(str, first), type |-> type,
             text |-> SubSeq(str, first, LineEnd(str, first))]
       ELSE [last |-> 0, type |-> <<>>, text |-> <<>>]

\* .replace(/::(\w+)::\s*(.+?)(?=\n|$)/g, ...) from position i on
RECURSIVE ReplaceCallouts(_, _)
ReplaceCallouts(str, i) ==
    IF i > Len(str) THEN <<>>
    ELSE LET m == CalloutMatch(str, i)
         IN IF m.last # 0
            THEN CalloutMarkup(m.type, getCalloutIcon(m.type), m.text)
                     \o ReplaceCallouts(str, m.last + 1)
            ELSE <<str[i]>> \o ReplaceCallouts(str, i + 1)

\* /d(.+?)d/ tried at position i: the position of the closing d, 0 is no match
DelimitedMatch(str, i, d) ==
    LET ends == {j \in (i + 2)..Len(str) :
                    str[j] = d /\ \A k \in (i + 1)..(j - 1) : str[k] # "\n"}
    IN IF str[i] = d /\ ends # {} THEN CHOOSE j \in ends : \A k \in ends : j <= k ELSE 0

\* .replace(/d(.+?)d/g, 'open$1close') from position i on
RECURSIVE ReplaceDelimited(_, _, _, _, _)
ReplaceDelimited(str, i, d, open, close) ==
    IF i > Len(str) THEN <<>>
    ELSE LET j == DelimitedMatch(str, i, d)
         IN IF j # 0
            THEN <<open>> \o SubSeq(str, i + 1, j - 1) \o <<close>>
                     \o ReplaceDelimited(str, j + 1, d, open, close)
            ELSE <<str[i]>> \o ReplaceDelimited(str, i + 1, d, open, close)

\* /^\s*[-*] box/im tried at position i: the position of the box, 0 is no match
TaskMatch(str, i, boxes) ==
    LET bullet == i + SpaceRun(str, i)
    IN IF /\ (i = 1 \/ str[i - 1] = "\n")
          /\ bullet + 2 <= Len(str)
          /\ str[bullet] \in {"-", "*"}
          /\ str[bullet + 1] = " "
          /\ str[bullet + 2] \in boxes
       THEN bullet + 2 ELSE 0

\* .replace(/^\s*[-*] box/gim, '- glyph') from position i on
RECURSIVE ReplaceTasks(_, _, _, _)
ReplaceTasks(str, i, boxes, glyph) ==
    IF i > Len(str) THEN <<>>
    ELSE LET j == TaskMatch(str, i, boxes)
         IN IF j # 0
            THEN <<"-", " ", glyph>> \o ReplaceTasks(str, j + 1, boxes, glyph)
            ELSE <<str[i]>> \o ReplaceTasks(str, i + 1, boxes, glyph)

\* the chain of enhancedContent: the result of each .replace call
Replacements(str) ==
    LET callouts == ReplaceCallouts(str, 1)
        kbd == ReplaceDelimited(callouts, 1, "++", "<kbd>", "</kbd>")
        mark == ReplaceDelimited(kbd, 1, "==", "<mark>", "</mark>")
        checked == ReplaceTasks(mark, 1, {"[x]", "[X]"}, "U+2705")
        unchecked == ReplaceTasks(checked, 1, {"[ ]"}, "U+2B1C")
    IN <<callouts, kbd, mark, checked, unchecked>>

notInFormatter == <<cells, inFlight, now, opCount, backendAgents, enhancedCells,
                    documentCalls, renderer>>

\* a renderer is given some content
InitFormatter ==
    /\ agents = <<>>
    /\ currentAgent = NoAgent
    /\ messages = <<>>
    /\ inputMessage = <<>>
    /\ isLoading = FALSE
    /\ isFirstTime = TRUE
    /\ isTyping = FALSE
    /\ isSwitchingAgent = FALSE
    /\ switchError = NoAgent
    /\ initPc = "done"
    /\ switches = {}
    /\ sends = {}
    /\ creates = {}
    /\ now = 0
    /\ opCount = 0
    /\ backendAgents = <<>>
    /\ lastEvent = Event("mounted", NoAgent)
    /\ agentToDelete = NoAgent
    /\ deletes = {}
    /\ agentLoads = {}
    /\ documentCalls = 0
    /\ nodes = <<>>
    /\ copiedCode = NoCode
    /\ timers = {}
    /\ elements = <<>>
    /\ rawContent \in Contents
    /\ replaced = <<>>

\* the render: const enhancedContent = content.replace(...)...
EnhanceContent ==
    /\ replaced = <<>>
    /\ replaced' = Replacements(rawContent)
    /\ lastEvent' = Event("enhanced", NoAgent)
    /\ UNCHANGED <<rawContent, notInFormatter>>

NextFormatter == EnhanceContent

SpecFormatter == InitFormatter /\ [][NextFormatter]_vars

\* ================================================================== claims

IsPrefix(a, b) == Len(a) <= Len(b) /\ \A i \in DOMAIN a : a[i] = b[i]

\* C1: at most one history fetch of an agent switch is outstanding at any time
\* (a switchAgent call that arrives while a fetch is pending is dropped).
C1_OneSwitchFetchOutstanding == Cardinality(switches) <= 1

\* C2: while an agent is active, every message in messages carries its id.
C2_MessagesOfCurrentAgent ==
    currentAgent # NoAgent =>
        \A i \in DOMAIN messages : messages[i].agent_id = currentAgent

\* C3: a history fetch issued for agent A that resolves while currentAgent is no
\* longer A is discarded: messages stays what it was.
C3_StaleHistoryDiscarded ==
    [][\A s \in switches :
          (/\ s \notin switches'
           /\ lastEvent'.op \in {"switchLoaded", "messagesLoaded"}
           /\ currentAgent # s.agent)
              => messages' = messages]_vars

\* C4: a switch whose history fetch rejects leaves currentAgent = none, messages = [],
\* lastSwitchError set and switching = false; the switchAgent call that follows it
\* passes the guard for every agent of the list, and once its fetch resolves the
\* agent it names is the current agent.
C4_SwitchFailureRollsBack ==
    /\ lastEvent.op = "switchFailed" =>
            /\ currentAgent = NoAgent
            /\ messages = <<>>
            /\ switchError = lastEvent.agent
            /\ ~isSwitchingAgent
            /\ \A a \in Range(agents) : ~SwitchGuard(isSwitchingAgent, currentAgent, a)
    /\ (lastEvent.op = "switchLoaded" /\ lastEvent.retry) =>
            /\ currentAgent = lastEvent.agent
            /\ switchError = NoAgent
            /\ ~isSwitchingAgent

\* C5: when the backend call of an accepted send rejects, messages ends with two
\* elements: the send's user message (trimmed text, the agent it was sent under)
\* followed by one agent-role message with the fixed error text.
C5_SendFailureKeepsUserMessage ==
    [][\A s \in sends :
          (lastEvent'.op = "sendFailed" /\ s \notin sends') =>
              LET n == Len(messages') IN
              /\ n >= 2
              /\ messages'[n - 1].role = "user"
              /\ messages'[n - 1].content = s.text
              /\ messages'[n - 1].agent_id = s.agent
              /\ s.text = Trim(s.text)
              /\ messages'[n].role = "assistant"
              /\ messages'[n].content = ErrorText]_vars

\* C6: between two agent switches messages only grows at its end: a step that is
\* not the start of a switch and not the rollback of a failed one leaves the old
\* list a prefix of the new one.
C6_MessagesAppendOnly ==
    [][lastEvent'.op \notin {"switchStarted", "initSwitch", "createdSwitch", "switchFailed"}
          => IsPrefix(messages, messages')]_vars

\* a step in which switchToAgent(a) is called: by the selector, by initializeApp
\* or by createAgent
CallsSwitch(a) ==
    \/ SwitchToAgent(a)
    \/ InitAgentsLoaded /\ Len(backendAgents) > 0 /\ DefaultAgent(backendAgents) = a
    \/ \E c \in creates : AgentCreated(c) /\ Len(backendAgents) + 1 = a

\* C7: switchAgent(target) called while a switch is in progress, or with the id of
\* the current agent, issues no history fetch and leaves currentAgent, messages, the
\* input buffer, switching and lastSwitchError unchanged (and agents, when the call
\* is the whole step).
C7_SwitchNoOp ==
    [][\A a \in AgentIds :
          (CallsSwitch(a) /\ (isSwitchingAgent \/ currentAgent = a)) =>
              /\ UNCHANGED <<currentAgent, messages, inputMessage, isSwitchingAgent,
                             switchError, switches>>
              /\ SwitchToAgent(a) => agents' = agents]_vars

\* C8: when the history fetch of an accepted switch to target resolves with list H,
\* the resulting state has messages = H, currentAgent = target, lastSwitchError
\* unset and switching = false.
C8_SwitchLoadsTarget ==
    [][\A s \in switches : \A history \in Histories(s.agent) :
          SwitchLoaded(s, history) =>
              /\ messages' = history
              /\ currentAgent' = s.agent
              /\ switchError' = NoAgent
              /\ ~isSwitchingAgent']_vars

\* C9: at most one send_message call is outstanding at any time.
C9_OneSendOutstanding == Cardinality(sends) <= 1

C11_ReplyAppendedAfterUserMessage ==
    [][/\ \A s \in sends' \ sends :
              s.agent = currentAgent /\ s.text = Trim(inputMessage)
       /\ \A s \in sends : \A r \in ReplyPool :
              SendReplied(s, r) =>
                  /\ Len(messages') = Len(messages) + 1
                  /\ IsPrefix(messages, messages')
                  /\ messages'[Len(messages')].role = "assistant"
                  /\ messages'[Len(messages')].content = r
                  /\ \E i \in DOMAIN messages :
                         /\ messages[i].role = "user"
                         /\ messages[i].content = s.text
                         /\ messages[i].agent_id = s.agent]_vars

\* C12: when the get_agents call of the start-up load resolves with list L, agents
\* becomes exactly L; if L is not empty and no agent is selected, the first agent
\* of L becomes currentAgent and a fetch of that agent's history is issued.
C12_AgentsLoadedWholesale ==
    [][(initPc = "get_agents" /\ lastEvent'.op \in {"initSwitch", "initEmpty"}
                              /\ lastEvent' # lastEvent) =>
          /\ agents' = backendAgents
          /\ (Len(backendAgents) > 0 /\ currentAgent = NoAgent) =>
                /\ currentAgent' = backendAgents[1]
                /\ \E s \in switches' \ switches : s.agent = backendAgents[1]]_vars

\* C12 witness: the list [1, 2] was loaded, agent 1 selected, its history requested
C12_Witness ==
    /\ lastEvent.op = "initSwitch"
    /\ agents = <<1, 2>>
    /\ currentAgent = 1
    /\ \E s \in switches : s.agent = 1 /\ s.owner = "init"

\* C14: when the get_agents call of the start-up load rejects, agents, currentAgent
\* and messages keep their values and an error state is surfaced (switchError is
\* the one error cell of the component; the catch block raises no alert).
C14_LoadFailureSurfaced ==
    [][(initPc = "get_agents" /\ lastEvent'.op = "initFailed" /\ lastEvent' # lastEvent) =>
          /\ agents' = agents
          /\ currentAgent' = currentAgent
          /\ messages' = messages
          /\ switchError' # NoAgent]_vars

\* C15: when create_agent has succeeded, createAgent ends (its switch to the new
\* agent dropped, or that switch's history loaded) with the new agent in agents
\* and currentAgent equal to the new agent.
C15_CreatedAgentSelected ==
    [][/\ \A c \in creates :
              (AgentCreated(c) /\ lastEvent'.op = "createdNoSwitch") =>
                  /\ lastEvent'.agent \in Range(agents')
                  /\ currentAgent' = lastEvent'.agent
       /\ \A s \in switches : \A history \in Histories(s.agent) :
              (s.owner = "create" /\ SwitchLoaded(s, history)) =>
                  /\ s.agent \in Range(agents')
                  /\ currentAgent' = s.agent]_vars

\* C16: createAgent with a name that is empty after trimming issues no create_agent
\* call and leaves agents, currentAgent and messages unchanged.
C16_BlankNameRejected ==
    [][\A name \in NamePool :
          (CreateAgent(name) /\ Trim(name) = <<>>) =>
              UNCHANGED <<creates, backendAgents, agents, currentAgent, messages>>]_vars

\* C16 witness: a createAgent call was rejected locally
C16_Witness ==
    /\ lastEvent.op = "createRejected"
    /\ creates = {}
    /\ backendAgents = <<>>

\* C17: every backend call that rejects is caught where it is made: no rejection
\* leaves the operation that issued the call unhandled.
C17_NoUnhandledRejection == lastEvent.op # "unhandledRejection"

\* C13: when the get_agents call of loadAgents resolves with an empty list, the
\* resulting state has currentAgent = none and messages = [].
C13_EmptyListClearsSession ==
    [][\A l \in agentLoads :
          (l \notin agentLoads' /\ lastEvent'.op = "agentsLoaded" /\ backendAgents = <<>>) =>
              /\ agents' = <<>>
              /\ currentAgent' = NoAgent
              /\ messages' = <<>>]_vars

\* the control of node i shows the acknowledgement
Acknowledged(i) == elements[i].copy = "Copied!"

\* C18: the copy acknowledgement is per code string: copying one code string
\* leaves the acknowledgement of every node with another code string as it was,
\* and a control shows the acknowledgement only while a copy of its code string
\* is less than 2 seconds old.
C18_CopyStateIsolated ==
    [][/\ \A i \in 1..Len(nodes) :
             (lastEvent'.op = "copied" /\ opCount' # opCount
                  /\ CodeString(nodes[i].children) # copiedCode')
                 => (Acknowledged(i)' <=> Acknowledged(i))
       /\ \A i \in 1..Len(nodes) :
             Acknowledged(i)' =>
                 \E t \in timers' : t.code = CodeString(nodes[i].children) /\ t.due >= now'
      ]_vars

\* C19: a timer started by an earlier copy does not clear the acknowledgement of
\* a code string that was copied again less than 2 seconds ago.
C19_RecopyRestartsTimer ==
    [][\A t \in timers : \A i \in 1..Len(nodes) :
          (t \notin timers' /\ lastEvent'.op = "copyTimeout" /\ Acknowledged(i)
               /\ \E u \in timers' : u.code = CodeString(nodes[i].children) /\ u.due > now')
              => Acknowledged(i)']_vars

\* C20: a code node with a language tag is rendered with the header showing the
\* tag and the copy control; a code node without one is rendered inline, without
\* header and copy control.
C20_LanguageTagGetsHeader ==
    \A i \in 1..Len(elements) :
        IF Language(nodes[i].className) # <<>>
        THEN /\ elements[i].header
             /\ elements[i].language = Language(nodes[i].className)
             /\ elements[i].copy # "none"
        ELSE /\ ~elements[i].header
             /\ elements[i].copy = "none"

\* str.split('\n')
RECURSIVE Lines(_)
Lines(str) ==
    LET breaks == {i \in 1..Len(str) : str[i] = "\n"}
        first == CHOOSE i \in breaks : \A j \in breaks : i <= j
    IN IF breaks = {} THEN <<str>>
       ELSE <<SubSeq(str, 1, first - 1)>> \o Lines(SubSeq(str, first + 1, Len(str)))

\* a line of the form ::<type>:: <text>
IsCalloutLine(line) ==
    /\ Len(line) >= 5
    /\ line[1] = "::"
    /\ IsWord(line[2])
    /\ line[3] = "::"
    /\ line[4] = " "
    /\ ~IsSpace(line[5])

\* the icon of the fixed table, the one of info for a type that is not in it
TableIcon(type) == IF type \in DOMAIN Icons THEN Icons[type] ELSE Icons["info"]

\* C21: each line of the form ::<type>:: <text> is rewritten to exactly one
\* callout block tagged <type> whose body is <text> up to the end of the line, with
\* the icon of the fixed table, or the info icon for a type that is not in the table.
C21_CalloutPerLine ==
    replaced # <<>> =>
        /\ Len(Lines(replaced[1])) = Len(Lines(rawContent))
        /\ \A l \in 1..Len(Lines(rawContent)) :
              LET line == Lines(rawContent)[l]
              IN IsCalloutLine(line) =>
                     Lines(replaced[1])[l] =
                         CalloutMarkup(<<line[2]>>, TableIcon(line[2]), SubSeq(line, 5, Len(line)))

\* the position of the box of a task-list marker that starts the line, 0 if none
MarkerBox(line) ==
    LET bullet == 1 + SpaceRun(line, 1)
    IN IF /\ bullet + 2 <= Len(line)
          /\ line[bullet] \in {"-", "*"}
          /\ line[bullet + 1] = " "
          /\ line[bullet + 2] \in {"[x]", "[X]", "[ ]"}
       THEN bullet + 2 ELSE 0

\* C22: a task-list marker at the start of a line, with bullet - or *, becomes
\* the checked glyph for [x] and [X] and the unchecked glyph for [ ]; the text
\* after the marker, and every line without a marker, are left unchanged.
C22_TaskMarkersReplaced ==
    replaced # <<>> =>
        /\ Len(Lines(replaced[5])) = Len(Lines(replaced[3]))
        /\ \A l \in 1..Len(Lines(replaced[3])) :
              LET line == Lines(replaced[3])[l]
                  out == Lines(replaced[5])[l]
                  box == MarkerBox(line)
              IN IF box = 0 THEN out = line
                 ELSE /\ Len(out) = Len(line) - box + 3
                      /\ out[1] \in {"-", "*"}
                      /\ out[2] = " "
                      /\ out[3] = (IF line[box] = "[ ]" THEN "U+2B1C" ELSE "U+2705")
                      /\ SubSeq(out, 4, Len(out)) = SubSeq(line, box + 1, Len(line))

\* C28: the output of the callout rewrite is opaque to the keystroke and the
\* highlight rewrite that run after it: a callout block is the same after them.
C28_CalloutOpaque ==
    replaced # <<>> =>
        \A l \in 1..Len(Lines(replaced[1])) :
            LET line == Lines(replaced[1])[l]
            IN (Len(line) > 0 /\ line[1] = "<div class=callout callout-") =>
                   /\ l <= Len(Lines(replaced[3]))
                   /\ Lines(replaced[3])[l] = line

\* C23: in every state where the history fetch of a switch to target is pending
\* and target is the current agent, messages holds no message of another agent:
\* the previous agent's messages are not shown under the new agent.
C23_NoStaleMessagesWhilePending ==
    \A s \in switches :
        currentAgent = s.agent =>
            \A i \in DOMAIN messages : messages[i].agent_id = s.agent

\* C24: switching is true in exactly the states where the history fetch of a
\* switch is outstanding, the default switch made at start-up included.
C24_SwitchingIffFetchOutstanding == isSwitchingAgent <=> switches # {}

\* C25: sending is true in every state where a send_message call is outstanding:
\* no other operation clears it while a send is in flight.
C25_SendingWhileSendOutstanding == sends # {} => isLoading

\* C26: while the backend call of an accepted sendMessage is outstanding, the
\* send's user message (sender user, the trimmed text, the agent's id) is the last
\* element of messages: it is appended before the response is awaited.
C26_UserMessageAppendedFirst ==
    \A s \in sends :
        s.step = "send_message_to_agent" =>
            /\ Len(messages) > 0
            /\ messages[Len(messages)].sender = "user"
            /\ messages[Len(messages)].content = s.text
            /\ messages[Len(messages)].agent_id = s.agent

\* C27: the identifiers of the messages in messages are pairwise distinct, also
\* when two messages are created within the same clock tick.
C27_MessageIdsDistinct ==
    \A i, j \in DOMAIN messages : i # j => messages[i].id # messages[j].id

\* C29: whenever no agent is active and no history fetch is in flight, messages
\* is empty.
C29_NoAgentNoMessages ==
    (currentAgent = NoAgent /\ switches = {}) => messages = <<>>

\* C30: whenever an agent is active and no operation is in flight, it is an
\* element of agents.
C30_CurrentAgentListed ==
    (/\ currentAgent # NoAgent
     /\ switches = {}
     /\ sends = {}
     /\ creates = {}
     /\ deletes = {}
     /\ agentLoads = {}
     /\ initPc = "done") => currentAgent \in Range(agents)

====
